---- MODULE Spec2Model ----
(***************************************************************************)
(* A model of plug-ins/script-fu/libscriptfu/script-fu-script.c: the       *)
(* SFScript argument schema, the PDB procedure built from it, the          *)
(* extraction of the leading display/image/item arguments, the two         *)
(* command serializers, the title of a script and the reset to defaults.   *)
(*                                                                         *)
(* C strings are sequences of one-byte strings; Chars turns a literal into *)
(* that form.  A double is modelled by an integer number of quarters       *)
(* (14 stands for 3.5): every such double is exact in binary and has an    *)
(* exact decimal expansion of at most two fractional digits.  A colour     *)
(* channel is an integer number of tenths (5 stands for 0.5).              *)
(***************************************************************************)
EXTENDS Integers, Sequences, FiniteSets, TLC

VARIABLES
  script,   \* the SFScript: name, menu_label and the args array
  ret,      \* what the last call did: the operation, its inputs, its result
  mem       \* the heap blocks of the text payloads (NoMem: not followed)

vars == <<script, ret, mem>>

(***************************************************************************)
(* Bounds of the model.                                                    *)
(***************************************************************************)
MaxCmdArgs == 2     \* longest generic schema handed to the serializers
MaxProcArgs == 2    \* longest generic schema handed to the procedure builder
MaxRepeat == 3      \* longest schema that repeats one type
MaxGarbage == 2     \* largest value an out-of-bounds read may return
MaxSlots == 2       \* longest generic schema handed to the extractor
MaxVals == 2        \* most invocation values after the run mode (generic)
MaxLabelLen == 8    \* longest generic menu label over the bytes A and '.'
MaxPathLen == 4     \* longest generic menu label over the bytes < / _ a '.'
MaxMemArgs == 2     \* longest generic schema whose heap blocks are followed
MaxParamArgs == 2   \* longest schema serialized from a short invocation
MaxAllocs == 8      \* most allocations followed in one run

(***************************************************************************)
(* Text helpers.                                                           *)
(***************************************************************************)
Chars(s) == [i \in 1..Len(s) |-> SubSeq(s, i, i)]

Digit(d) == SubSeq("0123456789", d + 1, d + 1)

RECURSIVE NatToStr(_)
NatToStr(n) ==
  IF n < 10 THEN <<Digit(n)>> ELSE NatToStr(n \div 10) \o <<Digit(n % 10)>>

\* printf ("%d", n)
IntToStr(n) == IF n < 0 THEN <<"-">> \o NatToStr(0 - n) ELSE NatToStr(n)

Quoted(s) == <<"\"">> \o s \o <<"\"">>

SeqsUpTo(S, n) == UNION {[1..k -> S] : k \in 0..n}

(***************************************************************************)
(* The argument types.                                                     *)
(***************************************************************************)
IdTypes ==
  {"SF_IMAGE", "SF_DRAWABLE", "SF_LAYER", "SF_CHANNEL", "SF_VECTORS",
   "SF_DISPLAY"}

TextTypes == {"SF_VALUE", "SF_STRING", "SF_TEXT"}

FileTypes == {"SF_FILENAME", "SF_DIRNAME"}

ResourceTypes == {"SF_FONT", "SF_PALETTE", "SF_PATTERN", "SF_GRADIENT"}

SFArgType ==
  IdTypes \cup TextTypes \cup FileTypes \cup ResourceTypes \cup
  {"SF_COLOR", "SF_TOGGLE", "SF_ADJUSTMENT", "SF_BRUSH", "SF_OPTION",
   "SF_ENUM"}

(***************************************************************************)
(* SFArgValue is a union: the model keeps the one member the code reads    *)
(* for the argument's type.  The six id members are all gint and share     *)
(* their storage; the code reads them through sfa_image.                   *)
(***************************************************************************)
Member(t) ==
  CASE t \in IdTypes -> "sfa_image"
    [] t = "SF_COLOR" -> "sfa_color"
    [] t = "SF_TOGGLE" -> "sfa_toggle"
    [] t \in TextTypes -> "sfa_value"
    [] t = "SF_ADJUSTMENT" -> "sfa_adjustment"
    [] t \in FileTypes -> "sfa_file"
    [] t = "SF_FONT" -> "sfa_font"
    [] t = "SF_PALETTE" -> "sfa_palette"
    [] t = "SF_PATTERN" -> "sfa_pattern"
    [] t = "SF_GRADIENT" -> "sfa_gradient"
    [] t = "SF_BRUSH" -> "sfa_brush"
    [] t = "SF_OPTION" -> "sfa_option"
    [] t = "SF_ENUM" -> "sfa_enum"

\* the payloads an argument of type t takes in the model; the first is its default
PayloadSeq(t) ==
  CASE t \in IdTypes -> <<-1, 7>>
    [] t = "SF_COLOR" -> <<[r |-> 10, g |-> 5, b |-> 0], [r |-> 12, g |-> 0, b |-> -1]>>
    [] t = "SF_TOGGLE" -> <<TRUE, FALSE>>
    [] t = "SF_VALUE" -> <<Chars("a"), Chars(""), Chars("a b"), Chars("(+ 1 2)")>>
    [] t \in {"SF_STRING", "SF_TEXT"} -> <<Chars("hello"), Chars("a \"b\\")>>
    [] t = "SF_ADJUSTMENT" -> <<[value |-> 14], [value |-> -5]>>
    [] t \in FileTypes -> <<[filename |-> Chars("/a b")], [filename |-> Chars("c\\d")]>>
    [] t \in ResourceTypes -> <<Chars("Sans 10"), Chars("a\" \"b")>>
    [] t = "SF_BRUSH" ->
         <<[name |-> Chars("Round"), opacity |-> 400, spacing |-> 44, paint_mode |-> 0],
           [name |-> Chars("a\" \"b"), opacity |-> 2, spacing |-> 0, paint_mode |-> 3]>>
    [] t = "SF_OPTION" -> <<[history |-> 0], [history |-> 1]>>
    [] t = "SF_ENUM" -> <<[history |-> 0], [history |-> 2]>>

ArgValue(t, x) == (Member(t) :> x)

Payloads(t) == {ArgValue(t, PayloadSeq(t)[k]) : k \in 1..Len(PayloadSeq(t))}

DefaultPayload(t) == ArgValue(t, PayloadSeq(t)[1])

\* an SFArg as the registration leaves it: value and default_value alike
NewArg(t) == [type |-> t, default_value |-> DefaultPayload(t), value |-> DefaultPayload(t)]

\* script_fu_script_new, with the arguments the registration then fills in
script_fu_script_new(name, menu_label, args) ==
  [name |-> name, menu_label |-> menu_label, n_args |-> Len(args), args |-> args]

\* ret before any call
NoCall ==
  [op |-> "none", null_script |-> FALSE, critical |-> FALSE, aborted |-> FALSE,
   is_null |-> FALSE, text |-> <<>>, count |-> 0, reset_ids |-> FALSE,
   args |-> <<>>, procedure |-> <<>>, positions |-> {}, slots |-> {}]

\* the heap not followed: no argument's blocks are tracked
NoMem ==
  [args |-> <<>>, heap |-> <<>>, double_free |-> FALSE, use_after_free |-> FALSE,
   freed |-> FALSE]

(***************************************************************************)
(* Library calls the serializers make.                                     *)
(***************************************************************************)
\* script_fu_strescape: a backslash before every backslash and double quote
RECURSIVE script_fu_strescape(_)
script_fu_strescape(s) ==
  IF s = <<>> THEN <<>>
  ELSE (IF Head(s) \in {"\\", "\""} THEN <<"\\", Head(s)>> ELSE <<Head(s)>>)
       \o script_fu_strescape(Tail(s))

\* gimp_rgb_get_uchar on one channel: ROUND (CLAMP (c, 0.0, 1.0) * 255.0)
gimp_rgb_get_uchar(c) ==
  LET clamped == IF c < 0 THEN 0 ELSE IF c > 10 THEN 10 ELSE c
  IN  (clamped * 255 + 5) \div 10

\* what a plausible slip would print: "%f", six fractional digits
g_ascii_dtostr_f(d) ==
  LET a == IF d < 0 THEN 0 - d ELSE d
      frac == <<"000000", "250000", "500000", "750000">>[(a % 4) + 1]
  IN  (IF d < 0 THEN <<"-">> ELSE <<>>) \o NatToStr(a \div 4) \o <<".">> \o Chars(frac)

\* g_ascii_dtostr: "%.17g" in the C locale.  On a double that is a number of
\* quarters this is the exact decimal expansion, without trailing zeros.
g_ascii_dtostr(d) ==
  LET a == IF d < 0 THEN 0 - d ELSE d
      frac == <<"", ".25", ".5", ".75">>[(a % 4) + 1]
  IN  (IF d < 0 THEN <<"-">> ELSE <<>>) \o NatToStr(a \div 4) \o Chars(frac)

\* "'(%d %d %d)" of the three channels
ColorToken(c) ==
  Chars("'(") \o IntToStr(gimp_rgb_get_uchar(c.r)) \o <<" ">>
              \o IntToStr(gimp_rgb_get_uchar(c.g)) \o <<" ">>
              \o IntToStr(gimp_rgb_get_uchar(c.b)) \o <<")">>

(***************************************************************************)
(* script_fu_script_get_command: the switch on the argument type.          *)
(***************************************************************************)
CommandToken(t, v) ==
  CASE t \in IdTypes -> IntToStr(v.sfa_image)
    [] t = "SF_COLOR" -> ColorToken(v.sfa_color)
    [] t = "SF_TOGGLE" -> IF v.sfa_toggle THEN Chars("TRUE") ELSE Chars("FALSE")
    [] t = "SF_VALUE" -> v.sfa_value
    [] t \in {"SF_STRING", "SF_TEXT"} -> Quoted(script_fu_strescape(v.sfa_value))
    [] t = "SF_ADJUSTMENT" -> g_ascii_dtostr(v.sfa_adjustment.value)
    [] t \in FileTypes -> Quoted(script_fu_strescape(v.sfa_file.filename))
    [] t \in ResourceTypes -> Quoted(v[Member(t)])
    [] t = "SF_BRUSH" ->
         Chars("'(") \o Quoted(v.sfa_brush.name) \o <<" ">>
           \o g_ascii_dtostr(v.sfa_brush.opacity) \o <<" ">>
           \o IntToStr(v.sfa_brush.spacing) \o <<" ">>
           \o IntToStr(v.sfa_brush.paint_mode) \o <<")">>
    [] t \in {"SF_OPTION", "SF_ENUM"} -> IntToStr(v[Member(t)].history)

\* the pieces lo..hi one after the other, as g_string_append leaves them
RECURSIVE Appended(_, _, _)
Appended(pieces, lo, hi) ==
  IF lo > hi THEN <<>>
  ELSE IF lo = hi THEN pieces[lo]
  ELSE LET mid == (lo + hi) \div 2
       IN  Appended(pieces, lo, mid) \o Appended(pieces, mid + 1, hi)

\* a slip in the loop: the separator written as a join, if (i > 0)
CommandArgs_Join(s, sc, i) ==
  LET turn == [k \in 1..sc.n_args |->
                 (IF k > 1 THEN <<" ">> ELSE <<>>)
                   \o CommandToken(sc.args[k].type, sc.args[k].value)]
  IN  s \o Appended(turn, i + 1, sc.n_args)

\* the loop of script_fu_script_get_command from argument i (counted from 0)
\* on: every turn appends a space and the argument's token to s
CommandArgs(s, sc, i) ==
  LET turn == [k \in 1..sc.n_args |->
                 <<" ">> \o CommandToken(sc.args[k].type, sc.args[k].value)]
  IN  s \o Appended(turn, i + 1, sc.n_args)

script_fu_script_get_command(sc) ==
  CommandArgs(<<"(">> \o sc.name, sc, 0) \o <<")">>

(***************************************************************************)
(* A GimpValueArray is a sequence of GValues: the GType and the member of   *)
(* the data union that type uses.  An object value holds <<>> (no object)  *)
(* or <<id>>.  The first element is the run mode.   *)
(* The code counts from 0 and the model from 1: gimp_value_array_index     *)
(* (args, k) is args[k + 1], and script->args[i] is sc.args[i + 1].        *)
(***************************************************************************)
ObjectType(t) ==
  CASE t = "SF_IMAGE" -> "GimpImage"
    [] t = "SF_DRAWABLE" -> "GimpDrawable"
    [] t = "SF_LAYER" -> "GimpLayer"
    [] t = "SF_CHANNEL" -> "GimpChannel"
    [] t = "SF_VECTORS" -> "GimpVectors"
    [] t = "SF_DISPLAY" -> "GimpDisplay"

RunMode == [gtype |-> "GimpRunMode", v_enum |-> 0]

\* the GValue of the parameter create_PDB_procedure declares for type t,
\* holding the value x of an argument of that type
GValueOf(t, x) ==
  CASE t \in IdTypes ->
         [gtype |-> ObjectType(t),
          v_object |-> IF x.sfa_image = -1 THEN <<>> ELSE <<x.sfa_image>>]
    [] t = "SF_COLOR" -> [gtype |-> "GimpRGB", v_boxed |-> x.sfa_color]
    [] t = "SF_TOGGLE" -> [gtype |-> "gboolean", v_boolean |-> x.sfa_toggle]
    [] t \in TextTypes -> [gtype |-> "gchararray", v_string |-> x.sfa_value]
    [] t = "SF_ADJUSTMENT" -> [gtype |-> "gdouble", v_double |-> x.sfa_adjustment.value]
    [] t \in FileTypes -> [gtype |-> "gchararray", v_string |-> x.sfa_file.filename]
    [] t \in ResourceTypes -> [gtype |-> "gchararray", v_string |-> x[Member(t)]]
    [] t = "SF_BRUSH" -> [gtype |-> "gchararray", v_string |-> x.sfa_brush.name]
    [] t \in {"SF_OPTION", "SF_ENUM"} -> [gtype |-> "gint", v_int |-> x[Member(t)].history]

\* the invocation that carries the script's current values
ValueArrayOf(sc) ==
  <<RunMode>> \o [i \in 1..Len(sc.args) |-> GValueOf(sc.args[i].type, sc.args[i].value)]

gimp_value_array_index(args, k) == args[k + 1]

gimp_value_array_length(args) == Len(args)

(***************************************************************************)
(* script_fu_script_get_command_from_params: the switch on the type.       *)
(***************************************************************************)
ParamsToken(t, value) ==
  CASE t \in IdTypes ->
         IntToStr(IF value.v_object = <<>> THEN -1 ELSE value.v_object[1])
    [] t = "SF_COLOR" -> ColorToken(value.v_boxed)
    [] t = "SF_TOGGLE" -> IF value.v_boolean THEN Chars("TRUE") ELSE Chars("FALSE")
    [] t = "SF_VALUE" -> value.v_string
    [] t \in {"SF_STRING", "SF_TEXT"} \cup FileTypes ->
         Quoted(script_fu_strescape(value.v_string))
    [] t = "SF_ADJUSTMENT" -> g_ascii_dtostr(value.v_double)
    [] t \in ResourceTypes \cup {"SF_BRUSH"} -> Quoted(value.v_string)
    [] t \in {"SF_OPTION", "SF_ENUM"} -> IntToStr(value.v_int)

\* the positions of the invocation the loop asks gimp_value_array_index
\* for: i + 1 for every i < n_args, whatever the length of the invocation
ParamsPositions(sc) == {i + 1 : i \in 0..(sc.n_args - 1)}

\* a position at or past the length of the invocation holds no GValue: what
\* the switch appends for it is not defined by this file (missing stands
\* for it)
ParamsArgs(s, sc, args, i, missing) ==
  LET turn == [k \in 1..sc.n_args |->
                 <<" ">> \o
                   (IF k < gimp_value_array_length(args)
                      THEN ParamsToken(sc.args[k].type, gimp_value_array_index(args, k))
                      ELSE missing)]
  IN  s \o Appended(turn, i + 1, sc.n_args)

script_fu_script_get_command_from_params(sc, args, missing) ==
  ParamsArgs(<<"(">> \o sc.name, sc, args, 0, missing) \o <<")">>

\* what a build may append for a value that is not there: nothing, or the 0
\* a getter returns for no GValue
MissingTokens == {<<>>, <<"0">>}

(***************************************************************************)
(* The two serializers as operations on a script.                          *)
(***************************************************************************)
GetCommand ==
  /\ ~ret.aborted
  /\ ret' = [NoCall EXCEPT !.op = "get_command",
                           !.text = script_fu_script_get_command(script)]
  /\ UNCHANGED <<script, mem>>

\* with a position read that the invocation does not have, the call
\* crashes or goes on with what it found
GetCommandFromParams(args) ==
  /\ ~ret.aborted
  /\ \E missing \in MissingTokens, crashed \in BOOLEAN :
       /\ (\A k \in ParamsPositions(script) : k < gimp_value_array_length(args)) =>
            (missing = <<>> /\ ~crashed)
       /\ ret' = [NoCall EXCEPT
                    !.op = "get_command_from_params",
                    !.args = args,
                    !.positions = ParamsPositions(script),
                    !.aborted = crashed,
                    !.text = IF crashed THEN <<>>
                             ELSE script_fu_script_get_command_from_params(script, args,
                                                                           missing)]
  /\ UNCHANGED <<script, mem>>

(***************************************************************************)
(* SpecCmd: the serializers on every script of at most MaxCmdArgs          *)
(* arguments of any type and any payload, and on the test-blur script.     *)
(***************************************************************************)
CmdArgs ==
  UNION {{[type |-> t, default_value |-> DefaultPayload(t), value |-> v] :
            v \in Payloads(t)} : t \in SFArgType}

TestBlur ==
  script_fu_script_new(Chars("test-blur"), Chars("<Image>/Filters/Test _Blur..."),
                       <<NewArg("SF_ADJUSTMENT"), NewArg("SF_TOGGLE"), NewArg("SF_STRING")>>)

CmdScripts ==
  {script_fu_script_new(Chars("s"), Chars("<Image>/S"), a) : a \in SeqsUpTo(CmdArgs, MaxCmdArgs)}
    \cup {TestBlur}

InitCmd == script \in CmdScripts /\ ret = NoCall /\ mem = NoMem

NextCmd == GetCommand \/ GetCommandFromParams(ValueArrayOf(script))

SpecCmd == InitCmd /\ [][NextCmd]_vars

(***************************************************************************)
(* What the claims about the command text speak of: the top-level tokens   *)
(* of a call expression.  A token is a maximal run of bytes that holds no  *)
(* space outside a string or a nested list; the text must be one           *)
(* parenthesised list.  -1 for a text that is not.                         *)
(***************************************************************************)
\* the scanner before the first byte
ScanStart ==
  [depth |-> 0, instr |-> FALSE, esc |-> FALSE, intok |-> FALSE, count |-> 0,
   bad |-> FALSE]

\* the scanner after byte c at position i
ScanStep(st, c, i) ==
  LET started == IF st.depth = 1 /\ ~st.intok THEN st.count + 1 ELSE st.count
  IN  CASE st.bad -> st
        [] ~st.bad /\ st.depth = 0 /\ i = 1 /\ c = "(" -> [ScanStart EXCEPT !.depth = 1]
        [] ~st.bad /\ st.depth = 0 /\ ~(i = 1 /\ c = "(") -> [st EXCEPT !.bad = TRUE]
        [] ~st.bad /\ st.depth > 0 /\ st.instr /\ st.esc -> [st EXCEPT !.esc = FALSE]
        [] ~st.bad /\ st.depth > 0 /\ st.instr /\ ~st.esc /\ c = "\\" ->
             [st EXCEPT !.esc = TRUE]
        [] ~st.bad /\ st.depth > 0 /\ st.instr /\ ~st.esc /\ c = "\"" ->
             [st EXCEPT !.instr = FALSE]
        [] ~st.bad /\ st.depth > 0 /\ st.instr /\ ~st.esc /\ c \notin {"\\", "\""} -> st
        [] ~st.bad /\ st.depth > 0 /\ ~st.instr /\ c = " " ->
             [st EXCEPT !.intok = IF st.depth = 1 THEN FALSE ELSE st.intok]
        [] ~st.bad /\ st.depth > 0 /\ ~st.instr /\ c = ")" ->
             [st EXCEPT !.depth = st.depth - 1]
        [] ~st.bad /\ st.depth > 0 /\ ~st.instr /\ c = "(" ->
             [st EXCEPT !.depth = st.depth + 1, !.intok = TRUE, !.count = started]
        [] ~st.bad /\ st.depth > 0 /\ ~st.instr /\ c = "\"" ->
             [st EXCEPT !.instr = TRUE, !.intok = TRUE, !.count = started]
        [] ~st.bad /\ st.depth > 0 /\ ~st.instr /\ c \notin {" ", ")", "(", "\""} ->
             [st EXCEPT !.intok = TRUE, !.count = started]

\* the scanner after the bytes lo..hi of s, entered in state st.  The range
\* is halved and the state after the left half is computed (the test of
\* left.count) before the right half is entered, so the nesting of the
\* evaluation grows with the logarithm of the length.
RECURSIVE Scan(_, _, _, _)
Scan(s, lo, hi, st) ==
  IF lo > hi THEN st
  ELSE IF lo = hi THEN ScanStep(st, s[lo], lo)
  ELSE LET mid == (lo + hi) \div 2
           left == Scan(s, lo, mid, st)
       IN  IF left.count >= 0 THEN Scan(s, mid + 1, hi, left) ELSE left

TopLevelTokens(text) ==
  LET st == Scan(text, 1, Len(text), ScanStart)
  IN  IF Len(text) > 0 /\ ~st.bad /\ st.depth = 0 /\ ~st.instr THEN st.count ELSE -1

SingleToken(x) == TopLevelTokens(<<"(">> \o x \o <<")">>) = 1

NoQuoteOrBackslash(x) == \A i \in 1..Len(x) : x[i] \notin {"\"", "\\"}

\* every text the serializer inserts unescaped is one token by itself
VerbatimTextsAreTokens(sc) ==
  /\ SingleToken(sc.name)
  /\ \A i \in 1..Len(sc.args) :
       LET a == sc.args[i]
       IN  /\ a.type = "SF_VALUE" => SingleToken(a.value.sfa_value)
           /\ a.type \in ResourceTypes => NoQuoteOrBackslash(a.value[Member(a.type)])
           /\ a.type = "SF_BRUSH" => NoQuoteOrBackslash(a.value.sfa_brush.name)

\* C1 as stated: for every script, whatever its values, the text of
\* script_fu_script_get_command holds exactly 1 + n_args top-level tokens.
C1_TokenCountAnyValue ==
  ret.op = "get_command" => TopLevelTokens(ret.text) = 1 + script.n_args

\* C1, amended: when the script name and every Value text are single tokens
\* and no Font, Palette, Pattern, Gradient or Brush name holds a double quote
\* or a backslash, the text of script_fu_script_get_command is one list of
\* exactly 1 + n_args top-level tokens, the first of them the script name.
C1_TokenCount ==
  (ret.op = "get_command" /\ VerbatimTextsAreTokens(script)) =>
    /\ TopLevelTokens(ret.text) = 1 + script.n_args
    /\ SubSeq(ret.text, 1, 1 + Len(script.name)) = <<"(">> \o script.name
    /\ ret.text[Len(ret.text)] = ")"

\* C1's case: a command of a two-argument script with an escaped String and a
\* Value that is a nested list
C1_Witness ==
  /\ ret.op = "get_command"
  /\ VerbatimTextsAreTokens(script)
  /\ script.n_args = 2
  /\ script.args[1].type = "SF_STRING"
  /\ script.args[1].value.sfa_value = Chars("a \"b\\")
  /\ script.args[2].type = "SF_VALUE"
  /\ script.args[2].value.sfa_value = Chars("(+ 1 2)")
  /\ TopLevelTokens(ret.text) = 3

(***************************************************************************)
(* C8: the two serializers on Brush arguments.                             *)
(***************************************************************************)
OnlyBrushes(sc) ==
  /\ sc.n_args > 0
  /\ \A i \in 1..Len(sc.args) : sc.args[i].type = "SF_BRUSH"

\* C8 as stated: on a script of Brush arguments,
\* script_fu_script_get_command_from_params, given the values the script
\* holds, returns the text script_fu_script_get_command returns: both encode
\* a Brush as '("<name>" <opacity> <spacing> <paint-mode>).
C8_SerializersAgreeOnBrush ==
  (/\ OnlyBrushes(script)
   /\ ret.op = "get_command_from_params"
   /\ ret.args = ValueArrayOf(script)) =>
    ret.text = script_fu_script_get_command(script)

(***************************************************************************)
(* C10: the test-blur script.                                              *)
(***************************************************************************)
ValuesAreDefaults(sc) ==
  \A i \in 1..Len(sc.args) : sc.args[i].value = sc.args[i].default_value

\* C10 as stated: the command of test-blur with its defaults is
\* (test-blur 3.500000 TRUE "hello").
C10_SixDigits ==
  (ret.op = "get_command" /\ script = TestBlur /\ ValuesAreDefaults(script)) =>
    ret.text = Chars("(test-blur 3.500000 TRUE \"hello\")")

\* C10, amended: the command of test-blur [Adjustment 3.5, Toggle true, String
\* "hello"] with its defaults is (test-blur 3.5 TRUE "hello"): g_ascii_dtostr
\* prints the shortest exact decimal, with a '.' whatever the locale.
C10_TestBlurCommand ==
  (ret.op = "get_command" /\ script = TestBlur /\ ValuesAreDefaults(script)) =>
    ret.text = Chars("(test-blur 3.5 TRUE \"hello\")")

\* C10's case: test-blur has been serialized
C10_Witness ==
  /\ ret.op = "get_command"
  /\ script = TestBlur
  /\ ValuesAreDefaults(script)
  /\ script.args[1].value.sfa_adjustment.value = 14
  /\ ret.text = Chars("(test-blur 3.5 TRUE \"hello\")")

(***************************************************************************)
(* script_fu_script_create_PDB_procedure.                                  *)
(***************************************************************************)
\* the first switch: the name of the parameter of each type
ParamName(t) ==
  CASE t = "SF_IMAGE" -> Chars("image")
    [] t = "SF_DRAWABLE" -> Chars("drawable")
    [] t = "SF_LAYER" -> Chars("layer")
    [] t = "SF_CHANNEL" -> Chars("channel")
    [] t = "SF_VECTORS" -> Chars("vectors")
    [] t = "SF_DISPLAY" -> Chars("display")
    [] t = "SF_COLOR" -> Chars("color")
    [] t = "SF_TOGGLE" -> Chars("toggle")
    [] t = "SF_VALUE" -> Chars("value")
    [] t = "SF_STRING" -> Chars("string")
    [] t = "SF_TEXT" -> Chars("text")
    [] t = "SF_ADJUSTMENT" -> Chars("adjustment")
    [] t = "SF_FILENAME" -> Chars("filename")
    [] t = "SF_DIRNAME" -> Chars("dirname")
    [] t = "SF_FONT" -> Chars("font")
    [] t = "SF_PALETTE" -> Chars("palette")
    [] t = "SF_PATTERN" -> Chars("pattern")
    [] t = "SF_BRUSH" -> Chars("brush")
    [] t = "SF_GRADIENT" -> Chars("gradient")
    [] t = "SF_OPTION" -> Chars("option")
    [] t = "SF_ENUM" -> Chars("enum")

\* the first switch: the nickname of the parameter of each type
ParamNick(t) ==
  CASE t = "SF_IMAGE" -> Chars("Image")
    [] t = "SF_DRAWABLE" -> Chars("Drawable")
    [] t = "SF_LAYER" -> Chars("Layer")
    [] t = "SF_CHANNEL" -> Chars("Channel")
    [] t = "SF_VECTORS" -> Chars("Vectors")
    [] t = "SF_DISPLAY" -> Chars("Display")
    [] t = "SF_COLOR" -> Chars("Color")
    [] t = "SF_TOGGLE" -> Chars("Toggle")
    [] t = "SF_VALUE" -> Chars("Value")
    [] t = "SF_STRING" -> Chars("String")
    [] t = "SF_TEXT" -> Chars("Text")
    [] t = "SF_ADJUSTMENT" -> Chars("Adjustment")
    [] t = "SF_FILENAME" -> Chars("Filename")
    [] t = "SF_DIRNAME" -> Chars("Dirname")
    [] t = "SF_FONT" -> Chars("Font")
    [] t = "SF_PALETTE" -> Chars("Palette")
    [] t = "SF_PATTERN" -> Chars("Pattern")
    [] t = "SF_BRUSH" -> Chars("Brush")
    [] t = "SF_GRADIENT" -> Chars("Gradient")
    [] t = "SF_OPTION" -> Chars("Option")
    [] t = "SF_ENUM" -> Chars("Enum")

\* gint arg_count[SF_DISPLAY]: the indices 0 .. SF_DISPLAY - 1 exist, so the
\* element of every type but SF_DISPLAY itself
ArgCountTypes == SFArgType \ {"SF_DISPLAY"}

ArgCountInit == [t \in ArgCountTypes |-> 0]

\* numbered_name and numbered_nick are gchar[64]: g_strlcpy and g_snprintf
\* keep at most 63 bytes
Buffer64(s) == IF Len(s) > 63 THEN SubSeq(s, 1, 63) ELSE s

\* the loop over the arguments from round i on: every round installs one
\* pspec after params.  arg_count[type] of a type outside the array reads
\* memory past it: garbage[k] stands for what the read of round k - 1
\* finds there.
ProcedureParams(params, sc, arg_count, garbage, i) ==
  LET pspec(k) ==
        LET t == sc.args[k].type
            in_bounds == t \in ArgCountTypes
            \* arg_count[t] at turn k: one more for every earlier turn of the type
            count == IF in_bounds
                       THEN arg_count[t]
                              + Cardinality({j \in (i + 1)..(k - 1) : sc.args[j].type = t})
                       ELSE garbage[k]
            numbered_name ==
              IF count = 0 THEN Buffer64(ParamName(t))
              ELSE Buffer64(ParamName(t) \o <<"-">> \o IntToStr(count + 1))
            numbered_nick ==
              IF count = 0 THEN Buffer64(ParamNick(t))
              ELSE Buffer64(ParamNick(t) \o <<" ">> \o IntToStr(count + 1))
        IN  [name |-> numbered_name, nick |-> numbered_nick, type |-> t,
             in_bounds |-> in_bounds]
  IN  params \o [k \in 1..(sc.n_args - i) |-> pspec(i + k)]

\* strncmp (a, b, n) == 0: the first n bytes agree, the terminating NUL counted
StrncmpEqual(a, b, n) ==
  LET za == a \o <<"NUL">>
      zb == b \o <<"NUL">>
      ka == IF Len(za) < n THEN Len(za) ELSE n
      kb == IF Len(zb) < n THEN Len(zb) ELSE n
  IN  SubSeq(za, 1, ka) = SubSeq(zb, 1, kb)

\* a slip: the sentinel compared with strcmp, the whole label
MenuLabelOf_Strcmp(sc) ==
  IF sc.menu_label # Chars("<None>") /\ Len(sc.menu_label) > 0
    THEN [set |-> TRUE, label |-> sc.menu_label]
    ELSE [set |-> FALSE, label |-> <<>>]

\* the menu label the procedure is given, if any
MenuLabelOf(sc) ==
  LET menu_label_null == StrncmpEqual(sc.menu_label, Chars("<None>"), 6)
  IN  IF ~menu_label_null /\ Len(sc.menu_label) > 0
        THEN [set |-> TRUE, label |-> sc.menu_label]
        ELSE [set |-> FALSE, label |-> <<>>]

RunModeParam ==
  [name |-> Chars("run-mode"), nick |-> Chars("Run mode"), type |-> "run-mode",
   in_bounds |-> TRUE]

script_fu_script_create_PDB_procedure(sc, garbage) ==
  [name |-> sc.name,
   menu_label |-> MenuLabelOf(sc),
   params |-> ProcedureParams(<<RunModeParam>>, sc, ArgCountInit, garbage, 0)]

CreatePDBProcedure(garbage) ==
  /\ ~ret.aborted
  /\ ret' = [NoCall EXCEPT !.op = "create_PDB_procedure",
                           !.procedure = script_fu_script_create_PDB_procedure(script, garbage)]
  /\ UNCHANGED <<script, mem>>

(***************************************************************************)
(* SpecProc: the procedure builder on every schema of at most MaxProcArgs  *)
(* arguments, on the schemas that repeat one type up to MaxRepeat times,   *)
(* and on menu labels around the "<None>" sentinel.                        *)
(***************************************************************************)
SchemaArgs(types) == [i \in 1..Len(types) |-> NewArg(types[i])]

ProcSchemas ==
  SeqsUpTo(SFArgType, MaxProcArgs)
    \cup UNION {{[i \in 1..k |-> t] : k \in 1..MaxRepeat} : t \in SFArgType}

ProcLabels ==
  {Chars(""), Chars("<None>"), Chars("<None>x"), Chars("<None>/a..."), Chars("<Non"),
   Chars("<None"), Chars("<none>"), Chars("x<None>"), Chars("<Image>/S"), Chars("S")}

ProcScripts ==
  {script_fu_script_new(Chars("s"), Chars("<Image>/S"), SchemaArgs(ts)) : ts \in ProcSchemas}
    \cup {script_fu_script_new(Chars("s"), l, SchemaArgs(<<"SF_IMAGE">>)) : l \in ProcLabels}

\* what the reads past arg_count may find, one value for each such read
Garbage(sc) ==
  [{i \in 1..sc.n_args : sc.args[i].type \notin ArgCountTypes} -> 0..MaxGarbage]

InitProc == script \in ProcScripts /\ ret = NoCall /\ mem = NoMem

NextProc == \E garbage \in Garbage(script) : CreatePDBProcedure(garbage)

SpecProc == InitProc /\ [][NextProc]_vars

\* the number of arguments of the type of argument i among arguments 1..i
Occurrence(sc, i) ==
  Cardinality({j \in 1..i : sc.args[j].type = sc.args[i].type})

\* C2 as stated: the first argument of a type gets the bare name and
\* nickname of its type, the k-th (k >= 2) gets "<name>-<k>" and "<Nick> <k>".
C2_NumberedNames ==
  ret.op = "create_PDB_procedure" =>
    \A i \in 1..script.n_args :
      LET t == script.args[i].type
          k == Occurrence(script, i)
          p == ret.procedure.params[i + 1]
      IN  IF k = 1
            THEN p.name = ParamName(t) /\ p.nick = ParamNick(t)
            ELSE /\ p.name = ParamName(t) \o <<"-">> \o IntToStr(k)
                 /\ p.nick = ParamNick(t) \o <<" ">> \o IntToStr(k)

\* C3 as stated: the names of the parameters of the procedure, "run-mode"
\* included, are pairwise distinct.
C3_DistinctNames ==
  ret.op = "create_PDB_procedure" =>
    \A i, j \in 1..Len(ret.procedure.params) :
      i # j => ret.procedure.params[i].name # ret.procedure.params[j].name

\* C7: the procedure has no menu label when the script's label begins with
\* the six bytes <None> or is empty, and has the script's label otherwise.
C7_MenuLabel ==
  ret.op = "create_PDB_procedure" =>
    LET l == script.menu_label
        sentinel == Len(l) >= 6 /\ SubSeq(l, 1, 6) = Chars("<None>")
    IN  IF sentinel \/ l = <<>>
          THEN ~ret.procedure.menu_label.set
          ELSE ret.procedure.menu_label.set /\ ret.procedure.menu_label.label = l

\* C7's case: a label that goes on after the sentinel sets no menu label
C7_Witness ==
  /\ ret.op = "create_PDB_procedure"
  /\ script.menu_label = Chars("<None>/a...")
  /\ ~ret.procedure.menu_label.set

(***************************************************************************)
(* script_fu_script_get_title.                                             *)
(***************************************************************************)
\* gimp_strip_uline: "__" stands for one underscore, a single "_" marks a
\* mnemonic and goes
gimp_strip_uline(s) ==
  LET \* the bytes of the run of underlines that ends at position i
      run(i) == i - CHOOSE j \in 0..(i - 1) :
                      /\ j = 0 \/ s[j] # "_"
                      /\ \A k \in (j + 1)..i : s[k] = "_"
      \* every other byte is copied; of a pair of underlines the second is
      kept == {i \in 1..Len(s) : s[i] # "_" \/ run(i) % 2 = 0}
      nth(k) == CHOOSE i \in kept : Cardinality({j \in kept : j <= i}) = k
  IN  [k \in 1..Cardinality(kept) |-> s[nth(k)]]

\* strrchr (s, c): the index of the last c in s, 0 when there is none
Strrchr(s, c) ==
  LET hits == {i \in 1..Len(s) : s[i] = c}
  IN  IF hits = {} THEN 0 ELSE CHOOSE i \in hits : \A j \in hits : j <= i

\* strstr (s, pat): the index of the first pat in s, 0 when there is none
Strstr(s, pat) ==
  LET hits == {i \in 1..(Len(s) - Len(pat) + 1) : SubSeq(s, i, i + Len(pat) - 1) = pat}
  IN  IF hits = {} THEN 0 ELSE CHOOSE i \in hits : \A j \in hits : i <= j

\* U+2026 HORIZONTAL ELLIPSIS in UTF-8, "\342\200\246"
Ellipsis == <<"\\342", "\\200", "\\246">>

\* a slip: the test of tmp[1] left out, so a path ending in "/" has an empty
\* last part
LastPart_NoNulCheck(title) ==
  LET tmp == Strrchr(title, "/")
  IN  IF Len(title) > 0 /\ title[1] = "<" /\ tmp > 0
        THEN SubSeq(title, tmp + 1, Len(title))
        ELSE title

\* "if this looks like a full menu path, use only the last part"
LastPart(title) ==
  LET tmp == Strrchr(title, "/")
  IN  IF Len(title) > 0 /\ title[1] = "<" /\ tmp > 0 /\ tmp < Len(title)
        THEN SubSeq(title, tmp + 1, Len(title))
        ELSE title

\* "cut off ellipsis": the first "...", or without one the first U+2026, is
\* cut when it is the last three bytes
CutEllipsis(title) ==
  LET dots == Strstr(title, Chars("..."))
      tmp == IF dots # 0 THEN dots ELSE Strstr(title, Ellipsis)
  IN  IF tmp # 0 /\ tmp = Len(title) - 3 + 1
        THEN SubSeq(title, 1, tmp - 1)
        ELSE title

script_fu_script_get_title(sc) ==
  CutEllipsis(LastPart(gimp_strip_uline(sc.menu_label)))

GetTitle ==
  /\ ~ret.aborted
  /\ ret' = [NoCall EXCEPT !.op = "get_title",
                           !.text = script_fu_script_get_title(script)]
  /\ UNCHANGED <<script, mem>>

(***************************************************************************)
(* SpecTitle: the title of every menu label of at most MaxLabelLen bytes   *)
(* over A and '.', of at most MaxPathLen bytes over < / _ a '.', and of    *)
(* some labels written out.                                                *)
(***************************************************************************)
TitleLabels ==
  SeqsUpTo({"A", "."}, MaxLabelLen)
    \cup SeqsUpTo({"<", "/", "_", "a", "."}, MaxPathLen)
    \cup {Chars("<Image>/Filters/Blur/_Gaussian Blur..."), Chars("<Image>/Filters/"),
          Chars("A") \o Ellipsis, Ellipsis, Chars("A...B") \o Ellipsis,
          Chars("A") \o Ellipsis \o Chars("B") \o Ellipsis,
          Chars("<Image>/File/Save") \o Ellipsis, Chars("<None>"),
          Chars("Save__as..."), Ellipsis \o Chars("...")}

InitTitle ==
  /\ script \in {script_fu_script_new(Chars("s"), l, <<>>) : l \in TitleLabels}
  /\ ret = NoCall
  /\ mem = NoMem

NextTitle == GetTitle

SpecTitle == InitTitle /\ [][NextTitle]_vars

EndsWithEllipsis(t) ==
  Len(t) >= 3 /\ SubSeq(t, Len(t) - 2, Len(t)) \in {Chars("..."), Ellipsis}

\* C6 as stated: whenever the title (mnemonics stripped, path shortened) ends
\* with "..." or with U+2026, script_fu_script_get_title returns it without
\* its last three bytes.
C6_TrailingEllipsisCut ==
  ret.op = "get_title" =>
    LET t == LastPart(gimp_strip_uline(script.menu_label))
    IN  EndsWithEllipsis(t) => ret.text = SubSeq(t, 1, Len(t) - 3)

(***************************************************************************)
(* script_fu_script_reset.                                                 *)
(***************************************************************************)
\* a slip: the id types reset whatever reset_ids says
ResetArg_AlwaysIds(arg, reset_ids) ==
  [arg EXCEPT !.value = arg.default_value]

\* a slip: the copy made in the wrong direction, the current value into the
\* default
ResetArg_IntoDefault(arg, reset_ids) ==
  IF arg.type \in IdTypes /\ ~reset_ids
    THEN arg
    ELSE [arg EXCEPT !.default_value = arg.value]

\* the switch of script_fu_script_reset on one argument
ResetArg(arg, reset_ids) ==
  LET value == arg.value
      default_value == arg.default_value
      t == arg.type
  IN  CASE t \in IdTypes ->
             IF reset_ids
               THEN [arg EXCEPT !.value.sfa_image = default_value.sfa_image]
               ELSE arg
        [] t = "SF_COLOR" -> [arg EXCEPT !.value.sfa_color = default_value.sfa_color]
        [] t = "SF_TOGGLE" -> [arg EXCEPT !.value.sfa_toggle = default_value.sfa_toggle]
        [] t \in TextTypes -> [arg EXCEPT !.value.sfa_value = default_value.sfa_value]
        [] t = "SF_ADJUSTMENT" ->
             [arg EXCEPT !.value.sfa_adjustment.value = default_value.sfa_adjustment.value]
        [] t \in FileTypes ->
             [arg EXCEPT !.value.sfa_file.filename = default_value.sfa_file.filename]
        [] t \in ResourceTypes ->
             [arg EXCEPT !.value[Member(t)] = default_value[Member(t)]]
        [] t = "SF_BRUSH" ->
             [arg EXCEPT !.value.sfa_brush.name = default_value.sfa_brush.name,
                         !.value.sfa_brush.opacity = default_value.sfa_brush.opacity,
                         !.value.sfa_brush.spacing = default_value.sfa_brush.spacing,
                         !.value.sfa_brush.paint_mode = default_value.sfa_brush.paint_mode]
        [] t = "SF_OPTION" ->
             [arg EXCEPT !.value.sfa_option.history = default_value.sfa_option.history]
        [] t = "SF_ENUM" ->
             [arg EXCEPT !.value.sfa_enum.history = default_value.sfa_enum.history]

script_fu_script_reset(sc, reset_ids) ==
  [sc EXCEPT !.args = [i \in 1..Len(sc.args) |-> ResetArg(sc.args[i], reset_ids)]]

\* The heap blocks behind the text payloads.  mem.args[i] holds the two
\* pointers of argument i, default_value and value: 0 is NULL, any other
\* number names one allocation (mem.heap[p] is "live" or "freed"; a number is
\* never given twice, so it names the allocation and not its address).
HasText(t) == t \in TextTypes \cup FileTypes \cup ResourceTypes \cup {"SF_BRUSH"}

\* g_free (p): nothing for NULL; a block already freed is a double free
g_free(m, p) ==
  IF p = 0 THEN m
  ELSE IF m.heap[p] = "freed" THEN [m EXCEPT !.double_free = TRUE]
  ELSE [m EXCEPT !.heap[p] = "freed"]

\* g_strdup (p): NULL for NULL, else a new block; [mem, ptr]
g_strdup(m, p) ==
  IF p = 0 THEN [mem |-> m, ptr |-> 0]
  ELSE [mem |-> [m EXCEPT !.heap = Append(m.heap, "live"),
                          !.use_after_free = m.use_after_free \/ m.heap[p] = "freed"],
        ptr |-> Len(m.heap) + 1]

\* a slip: the default's pointer stored, not a copy of its text
ResetArgMem_NoCopy(m, i) ==
  IF HasText(m.args[i].type)
    THEN [g_free(m, m.args[i].value) EXCEPT !.args[i].value = m.args[i].default_value]
    ELSE m

\* the g_free and g_strdup of script_fu_script_reset on argument i
ResetArgMem(m, i) ==
  IF HasText(m.args[i].type)
    THEN LET copy == g_strdup(g_free(m, m.args[i].value), m.args[i].default_value)
         IN  [copy.mem EXCEPT !.args[i].value = copy.ptr]
    ELSE m

RECURSIVE ResetMemFrom(_, _)
ResetMemFrom(m, i) ==
  IF i > Len(m.args) THEN m ELSE ResetMemFrom(ResetArgMem(m, i), i + 1)

script_fu_script_reset_mem(m) == ResetMemFrom(m, 1)

Reset(reset_ids) ==
  /\ ~ret.aborted
  /\ ~mem.freed
  /\ script' = script_fu_script_reset(script, reset_ids)
  /\ ret' = [NoCall EXCEPT !.op = "reset", !.reset_ids = reset_ids]
  /\ mem' = script_fu_script_reset_mem(mem)

\* the g_free calls of script_fu_script_free on argument i
FreeArgMem(m, i) ==
  IF HasText(m.args[i].type)
    THEN g_free(g_free(m, m.args[i].default_value), m.args[i].value)
    ELSE m

RECURSIVE FreeMemFrom(_, _)
FreeMemFrom(m, i) ==
  IF i > Len(m.args) THEN m ELSE FreeMemFrom(FreeArgMem(m, i), i + 1)

script_fu_script_free(m) == [FreeMemFrom(m, 1) EXCEPT !.freed = TRUE]

Free ==
  /\ ~ret.aborted
  /\ ~mem.freed
  /\ mem' = script_fu_script_free(mem)
  /\ ret' = [NoCall EXCEPT !.op = "free"]
  /\ UNCHANGED script

(***************************************************************************)
(* script_fu_script_param_init and script_fu_script_collect_standard_args. *)
(***************************************************************************)
\* GIMP_VALUE_HOLDS_IMAGE and the like: the GValue's type is the GType asked
\* for or derives from it (a layer and a channel are drawables)
GIMP_VALUE_HOLDS(value, t) ==
  CASE t = "SF_IMAGE" -> value.gtype = "GimpImage"
    [] t = "SF_DRAWABLE" -> value.gtype \in {"GimpDrawable", "GimpLayer", "GimpChannel"}
    [] t = "SF_LAYER" -> value.gtype = "GimpLayer"
    [] t = "SF_CHANNEL" -> value.gtype = "GimpChannel"
    [] t = "SF_VECTORS" -> value.gtype = "GimpVectors"
    [] t = "SF_DISPLAY" -> value.gtype = "GimpDisplay"
    [] OTHER -> FALSE

\* gimp_image_get_id, gimp_item_get_id, gimp_display_get_id: -1 of no object
ObjectId(value) == IF value.v_object = <<>> THEN -1 ELSE value.v_object[1]

\* a slip: a slot of the type asked for is cleared when the value is no such
\* object
script_fu_script_param_init_ClearOnMiss(sc, args, type, n) ==
  IF /\ sc.n_args > n
     /\ sc.args[n + 1].type = type
     /\ gimp_value_array_length(args) > n + 1
     /\ type \in IdTypes
    THEN IF GIMP_VALUE_HOLDS(gimp_value_array_index(args, n + 1), type)
           THEN [ok |-> TRUE,
                 script |-> [sc EXCEPT !.args[n + 1].value.sfa_image =
                                          ObjectId(gimp_value_array_index(args, n + 1))]]
           ELSE [ok |-> FALSE, script |-> [sc EXCEPT !.args[n + 1].value.sfa_image = -1]]
    ELSE [ok |-> FALSE, script |-> sc]

\* [ok, script]: whether slot n took the value, and the script afterwards
script_fu_script_param_init(sc, args, type, n) ==
  IF /\ sc.n_args > n
     /\ sc.args[n + 1].type = type
     /\ gimp_value_array_length(args) > n + 1
     /\ type \in IdTypes
     /\ GIMP_VALUE_HOLDS(gimp_value_array_index(args, n + 1), type)
    THEN [ok |-> TRUE,
          script |-> [sc EXCEPT !.args[n + 1].value.sfa_image =
                                   ObjectId(gimp_value_array_index(args, n + 1))]]
    ELSE [ok |-> FALSE, script |-> sc]

\* the four probes after the image: the first that succeeds ends the ||
ItemProbe(sc, args, n) ==
  LET drawable == script_fu_script_param_init(sc, args, "SF_DRAWABLE", n)
      layer == script_fu_script_param_init(sc, args, "SF_LAYER", n)
      channel == script_fu_script_param_init(sc, args, "SF_CHANNEL", n)
      vectors == script_fu_script_param_init(sc, args, "SF_VECTORS", n)
  IN  IF drawable.ok THEN drawable
      ELSE IF layer.ok THEN layer
      ELSE IF channel.ok THEN channel
      ELSE vectors

\* what one call of script_fu_script_param_init reads: slot n of the schema
\* after the test of n_args, position n + 1 of the invocation after the test
\* of its length
ParamInitReads(sc, args, type, n) ==
  [slots |-> IF sc.n_args > n THEN {n} ELSE {},
   positions |-> IF /\ sc.n_args > n
                    /\ sc.args[n + 1].type = type
                    /\ gimp_value_array_length(args) > n + 1
                   THEN {n + 1} ELSE {}]

\* the slots and positions the probes of one extraction read
CollectReads(sc, args) ==
  LET display == script_fu_script_param_init(sc, args, "SF_DISPLAY", 0)
      n1 == IF display.ok THEN 1 ELSE 0
      image == script_fu_script_param_init(display.script, args, "SF_IMAGE", n1)
      n2 == IF image.ok THEN n1 + 1 ELSE n1
      items == <<"SF_DRAWABLE", "SF_LAYER", "SF_CHANNEL", "SF_VECTORS">>
      drawable == script_fu_script_param_init(image.script, args, "SF_DRAWABLE", n2).ok
      layer == script_fu_script_param_init(image.script, args, "SF_LAYER", n2).ok
      channel == script_fu_script_param_init(image.script, args, "SF_CHANNEL", n2).ok
      tried == {1} \cup (IF drawable THEN {} ELSE {2})
                   \cup (IF drawable \/ layer THEN {} ELSE {3})
                   \cup (IF drawable \/ layer \/ channel THEN {} ELSE {4})
      probes == {<<"SF_DISPLAY", 0>>, <<"SF_IMAGE", n1>>}
                  \cup (IF image.ok THEN {<<items[j], n2>> : j \in tried} ELSE {})
  IN  [slots |-> UNION {ParamInitReads(sc, args, q[1], q[2]).slots : q \in probes},
       positions |-> UNION {ParamInitReads(sc, args, q[1], q[2]).positions : q \in probes}]

\* a slip: the item probed whether or not an image was taken
script_fu_script_collect_standard_args_ItemAlways(sc, args) ==
  LET display == script_fu_script_param_init(sc, args, "SF_DISPLAY", 0)
      n1 == IF display.ok THEN 1 ELSE 0
      image == script_fu_script_param_init(display.script, args, "SF_IMAGE", n1)
      n2 == IF image.ok THEN n1 + 1 ELSE n1
      item == ItemProbe(image.script, args, n2)
  IN  [params_consumed |-> IF item.ok THEN n2 + 1 ELSE n2, script |-> item.script]

\* [params_consumed, script]
script_fu_script_collect_standard_args(sc, args) ==
  LET display == script_fu_script_param_init(sc, args, "SF_DISPLAY", 0)
      n1 == IF display.ok THEN 1 ELSE 0
      image == script_fu_script_param_init(display.script, args, "SF_IMAGE", n1)
      n2 == IF image.ok THEN n1 + 1 ELSE n1
      item == ItemProbe(image.script, args, n2)
  IN  IF image.ok
        THEN [params_consumed |-> IF item.ok THEN n2 + 1 ELSE n2, script |-> item.script]
        ELSE [params_consumed |-> n2, script |-> image.script]

CollectStandardArgs(args) ==
  /\ ~ret.aborted
  /\ LET r == script_fu_script_collect_standard_args(script, args)
         reads == CollectReads(script, args)
     IN  /\ script' = r.script
         /\ ret' = [NoCall EXCEPT !.op = "collect_standard_args",
                                  !.args = args,
                                  !.positions = reads.positions,
                                  !.slots = reads.slots,
                                  !.count = r.params_consumed]
  /\ UNCHANGED mem

(***************************************************************************)
(* SpecCollect: the extractor on every schema of at most MaxSlots slots    *)
(* over the id types and Adjustment and every invocation of at most        *)
(* MaxVals values, and on the Display, Image, Drawable, Adjustment schema. *)
(***************************************************************************)
Display42 == [gtype |-> "GimpDisplay", v_object |-> <<42>>]

Image7 == [gtype |-> "GimpImage", v_object |-> <<7>>]

Drawable3 == [gtype |-> "GimpDrawable", v_object |-> <<3>>]

Double1_5 == [gtype |-> "gdouble", v_double |-> 6]

Layer5 == [gtype |-> "GimpLayer", v_object |-> <<5>>]

Channel6 == [gtype |-> "GimpChannel", v_object |-> <<6>>]

Vectors8 == [gtype |-> "GimpVectors", v_object |-> <<8>>]

NoImage == [gtype |-> "GimpImage", v_object |-> <<>>]

ExtractValues == {Image7, Drawable3}

ExtractSchema ==
  script_fu_script_new(Chars("s"), Chars("<Image>/S"),
                       SchemaArgs(<<"SF_DISPLAY", "SF_IMAGE", "SF_DRAWABLE", "SF_ADJUSTMENT">>))

\* display 42, image 7, drawable 3, 1.5 after the run mode
FullInvocation == <<RunMode, Display42, Image7, Drawable3, Double1_5>>

\* image 7, drawable 3, 1.5 after the run mode: no display
NoDisplayInvocation == <<RunMode, Image7, Drawable3, Double1_5>>

CollectScripts ==
  {script_fu_script_new(Chars("s"), Chars("<Image>/S"), SchemaArgs(ts)) :
     ts \in SeqsUpTo(IdTypes \cup {"SF_ADJUSTMENT"}, MaxSlots)}
    \cup {ExtractSchema}

CollectInvocations ==
  {<<RunMode>> \o vs : vs \in SeqsUpTo(ExtractValues, MaxVals)}
    \cup {<<>>, FullInvocation, NoDisplayInvocation,
          <<RunMode, Display42>>, <<RunMode, Display42, Image7>>,
          <<RunMode, Display42, Drawable3>>, <<RunMode, Image7, Display42>>,
          <<RunMode, Image7, Layer5>>, <<RunMode, Display42, Image7, Layer5>>,
          <<RunMode, Image7, Channel6>>, <<RunMode, Image7, Vectors8>>,
          <<RunMode, Image7, Double1_5>>, <<RunMode, NoImage, Drawable3>>,
          <<RunMode, Display42, Image7, Vectors8>>,
          <<RunMode, Display42, Image7, Channel6, Drawable3>>,
          <<RunMode, Double1_5, Image7, Drawable3>>}

InitCollect == script \in CollectScripts /\ ret = NoCall /\ mem = NoMem

NextCollect == \E args \in CollectInvocations : CollectStandardArgs(args)

SpecCollect == InitCollect /\ [][NextCollect]_vars

\* C4: what the ordered procedure consumes.  Slot n matches type t when the
\* schema has a slot n of exactly that type and the invocation has a value
\* for it that is a t.
SlotMatches(sc, args, n, t) ==
  /\ n < sc.n_args
  /\ sc.args[n + 1].type = t
  /\ Len(args) > n + 1
  /\ GIMP_VALUE_HOLDS(args[n + 2], t)

OrderedProcedure(sc, args) ==
  LET c1 == IF SlotMatches(sc, args, 0, "SF_DISPLAY") THEN 1 ELSE 0
      image == SlotMatches(sc, args, c1, "SF_IMAGE")
      c2 == IF image THEN c1 + 1 ELSE c1
      item == /\ image
              /\ \E t \in {"SF_DRAWABLE", "SF_LAYER", "SF_CHANNEL", "SF_VECTORS"} :
                   SlotMatches(sc, args, c2, t)
  IN  IF item THEN c2 + 1 ELSE c2

SchemaTypes(sc) == [i \in 1..Len(sc.args) |-> sc.args[i].type]

IsExtractSchema(sc) == SchemaTypes(sc) = SchemaTypes(ExtractSchema)

\* C4: script_fu_script_collect_standard_args returns a count in 0..3, the
\* count of the ordered procedure (Display at slot 0, then Image, then, only
\* after an Image, one of Drawable, Layer, Channel, Vectors).  On [Display,
\* Image, Drawable, Adjustment] the invocation [display 42, image 7, drawable
\* 3, 1.5] gives 3 and stores 42, 7, 3; [image 7, drawable 3, 1.5] gives 0.
C4_OrderedExtraction ==
  ret.op = "collect_standard_args" =>
    /\ ret.count \in 0..3
    /\ ret.count = OrderedProcedure(script, ret.args)
    /\ (IsExtractSchema(script) /\ ret.args = FullInvocation) =>
         /\ ret.count = 3
         /\ script.args[1].value.sfa_image = 42
         /\ script.args[2].value.sfa_image = 7
         /\ script.args[3].value.sfa_image = 3
    /\ (IsExtractSchema(script) /\ ret.args = NoDisplayInvocation) => ret.count = 0

\* C4's case: the full invocation has been extracted from the four-slot schema
C4_Witness ==
  /\ ret.op = "collect_standard_args"
  /\ IsExtractSchema(script)
  /\ ret.args = FullInvocation
  /\ ret.count = 3
  /\ script.args[1].value.sfa_image = 42
  /\ script.args[3].value.sfa_image = 3

(***************************************************************************)
(* A call with a NULL script.  g_return_if_fail and g_return_val_if_fail   *)
(* log a critical message and return (the given value); the process aborts *)
(* instead when critical messages are fatal (G_DEBUG=fatal-criticals),     *)
(* which is not this file's choice.                                        *)
(***************************************************************************)
NullCheckedOps ==
  {"get_title", "reset", "collect_standard_args", "get_command",
   "get_command_from_params"}

\* a slip: the checks of the serializers returning an empty text, not NULL
ReturnValIfFail_EmptyText(op) ==
  [is_null |-> FALSE, count |-> 0]

\* the value each g_return_val_if_fail (script != NULL, ...) returns
ReturnValIfFail(op) ==
  CASE op \in {"get_title", "get_command", "get_command_from_params"} ->
         [is_null |-> TRUE, count |-> 0]
    [] op = "collect_standard_args" -> [is_null |-> FALSE, count |-> 0]
    [] op = "reset" -> [is_null |-> FALSE, count |-> 0]

NullScriptCall(op, fatal_criticals) ==
  /\ ~ret.aborted
  /\ ret' = [NoCall EXCEPT !.op = op,
                           !.null_script = TRUE,
                           !.critical = TRUE,
                           !.aborted = fatal_criticals,
                           !.is_null = ~fatal_criticals /\ ReturnValIfFail(op).is_null,
                           !.count = ReturnValIfFail(op).count]
  /\ UNCHANGED <<script, mem>>

(***************************************************************************)
(* The callers of this file write the current values between calls: the    *)
(* dialog and the run function store what the user or the invocation       *)
(* chose.  Here every argument takes the k-th payload of its type (the     *)
(* last one when its type has fewer).                                      *)
(***************************************************************************)
ChosenPayload(t, k) ==
  ArgValue(t, PayloadSeq(t)[IF k <= Len(PayloadSeq(t)) THEN k ELSE Len(PayloadSeq(t))])

SetArgValues(k) ==
  /\ ~ret.aborted
  /\ script' = [script EXCEPT !.args =
                  [i \in 1..Len(script.args) |->
                     [script.args[i] EXCEPT !.value = ChosenPayload(script.args[i].type, k)]]]
  /\ ret' = [NoCall EXCEPT !.op = "set_arg_values"]
  /\ UNCHANGED mem

(***************************************************************************)
(* Spec: every operation, in any order, on the four-slot schema, on        *)
(* test-blur and on a script with one argument of each type.               *)
(***************************************************************************)
AllTypesSchema ==
  <<"SF_IMAGE", "SF_DRAWABLE", "SF_LAYER", "SF_CHANNEL", "SF_VECTORS", "SF_COLOR",
    "SF_TOGGLE", "SF_VALUE", "SF_STRING", "SF_ADJUSTMENT", "SF_FONT", "SF_PATTERN",
    "SF_BRUSH", "SF_GRADIENT", "SF_FILENAME", "SF_DIRNAME", "SF_OPTION", "SF_PALETTE",
    "SF_TEXT", "SF_ENUM", "SF_DISPLAY">>

AllTypesScript ==
  script_fu_script_new(Chars("all"), Chars("<Image>/Filters/_All..."),
                       SchemaArgs(AllTypesSchema))

MainScripts == {ExtractSchema, TestBlur, AllTypesScript}

MainInvocations ==
  {FullInvocation, NoDisplayInvocation, <<RunMode, Image7, Layer5>>, <<RunMode>>}

Init == script \in MainScripts /\ ret = NoCall /\ mem = NoMem

Next ==
  \/ \E args \in MainInvocations : CollectStandardArgs(args)
  \/ \E reset_ids \in BOOLEAN : Reset(reset_ids)
  \/ GetCommand
  \/ GetCommandFromParams(ValueArrayOf(script))
  \/ GetTitle
  \/ \E garbage \in Garbage(script) : CreatePDBProcedure(garbage)
  \/ \E k \in 2..4 : SetArgValues(k)
  \/ \E op \in NullCheckedOps, fatal_criticals \in BOOLEAN : NullScriptCall(op, fatal_criticals)

Spec == Init /\ [][Next]_vars

\* C5: a step of script_fu_script_reset leaves every argument's type and
\* default alone, gives every argument that is not of an id type its default
\* as current value, and gives an argument of an id type its default when
\* reset_ids is true and the value it had before when reset_ids is false.
C5_Reset ==
  [][ret'.op = "reset" /\ ~ret'.null_script =>
       /\ Len(script'.args) = Len(script.args)
       /\ \A i \in 1..Len(script.args) :
            LET old == script.args[i]
                new == script'.args[i]
            IN  /\ new.type = old.type
                /\ new.default_value = old.default_value
                /\ IF old.type \in IdTypes /\ ~ret'.reset_ids
                     THEN new.value = old.value
                     ELSE new.value = new.default_value]_vars

\* C5's case: after a reset that keeps the ids, the script with an argument
\* of each type holds an extracted id and the default of every other type
C5_Witness ==
  /\ ret.op = "reset"
  /\ ~ret.null_script
  /\ ~ret.reset_ids
  /\ SchemaTypes(script) = AllTypesSchema
  /\ script.args[1].value.sfa_image = 7
  /\ script.args[2].value.sfa_image = 5
  /\ \A i \in 1..Len(script.args) :
       script.args[i].type \notin IdTypes =>
         script.args[i].value = script.args[i].default_value

\* C9 as stated: a call with a NULL script ends in a fatal failure and
\* returns nothing to the caller.
C9_NullScriptIsFatal ==
  ret.null_script => ret.aborted

\* C9, amended: a call of get_title, reset, collect_standard_args, get_command
\* or get_command_from_params with a NULL script logs a critical message and,
\* unless critical messages are fatal, returns to the caller: NULL from
\* get_title and the two serializers, 0 from collect_standard_args.
C9_NullScriptReturns ==
  ret.null_script =>
    /\ ret.critical
    /\ ret.text = <<>>
    /\ ret.count = 0
    /\ ~ret.aborted =>
         (ret.is_null <=> ret.op \in {"get_title", "get_command", "get_command_from_params"})

\* C9's case: get_command with a NULL script has returned NULL
C9_Witness ==
  /\ ret.null_script
  /\ ret.op = "get_command"
  /\ ~ret.aborted
  /\ ret.is_null

(***************************************************************************)
(* The frame of the extractor.                                             *)
(***************************************************************************)
\* the schema slot has the type probed for and the invocation has a value at
\* its position, which is no object of that type
ProbeFailedAfterTypeMatch(sc, args, n) ==
  /\ sc.n_args > n
  /\ sc.args[n + 1].type \in IdTypes
  /\ Len(args) > n + 1
  /\ ~GIMP_VALUE_HOLDS(args[n + 2], sc.args[n + 1].type)

\* C11: a step of script_fu_script_collect_standard_args that returns k
\* changes nothing but the current values of arguments 0..k-1, each of which
\* then holds the id of the invocation value at position i+1; the name, the
\* menu label, the argument count, every type and default and the current
\* values of the arguments from k on are as before.  A return of 0 leaves
\* the script as it was, also after a probe that failed on the value's type.
C11_CollectFrame ==
  [][ret'.op = "collect_standard_args" /\ ~ret'.null_script =>
       LET k == ret'.count
           args == ret'.args
       IN  /\ script'.name = script.name
           /\ script'.menu_label = script.menu_label
           /\ script'.n_args = script.n_args
           /\ Len(script'.args) = Len(script.args)
           /\ k <= Len(script.args)
           /\ \A i \in 1..Len(script.args) :
                /\ script'.args[i].type = script.args[i].type
                /\ script'.args[i].default_value = script.args[i].default_value
                /\ IF i <= k
                     THEN /\ script.args[i].type \in IdTypes
                          /\ script'.args[i].value =
                               [sfa_image |-> ObjectId(args[i + 1])]
                     ELSE script'.args[i].value = script.args[i].value
           /\ k = 0 => script' = script]_vars

\* C11's case: an extraction returned 0 after the probe of slot 0 matched the
\* schema type and failed on the value, and the slot still holds the id an
\* earlier extraction wrote
C11_Witness ==
  /\ ret.op = "collect_standard_args"
  /\ ret.count = 0
  /\ ProbeFailedAfterTypeMatch(script, ret.args, 0)
  /\ script.args[1].value.sfa_image = 7

(***************************************************************************)
(* The last part of a menu path.                                           *)
(***************************************************************************)
LooksLikePath(t) ==
  Len(t) > 0 /\ t[1] = "<" /\ \E i \in 1..Len(t) : t[i] = "/"

\* what follows the last "/" of a text that has one
AfterLastSlash(t) ==
  LET k == CHOOSE k \in 1..Len(t) :
             t[k] = "/" /\ \A j \in (k + 1)..Len(t) : t[j] # "/"
  IN  [i \in 1..(Len(t) - k) |-> t[k + i]]

GaussianBlurLabel == Chars("<Image>/Filters/Blur/_Gaussian Blur...")

\* C12 as stated: for every menu label whose form without mnemonics begins
\* with "<" and holds a "/", script_fu_script_get_title returns, up to the
\* cut of the ellipsis, what follows the last "/", also when nothing follows
\* it.
C12_LastPartAlways ==
  ret.op = "get_title" /\ ~ret.null_script =>
    LET t == gimp_strip_uline(script.menu_label)
    IN  LooksLikePath(t) => ret.text = CutEllipsis(AfterLastSlash(t))

\* C12, amended: for every menu label whose form without mnemonics begins
\* with "<" and holds a "/", script_fu_script_get_title returns, up to the
\* cut of the ellipsis, what follows the last "/" when something follows it,
\* and the whole form when the last "/" is its last byte; the label
\* <Image>/Filters/Blur/_Gaussian Blur... gives Gaussian Blur.
C12_LastPart ==
  ret.op = "get_title" /\ ~ret.null_script =>
    LET t == gimp_strip_uline(script.menu_label)
    IN  /\ LooksLikePath(t) =>
             ret.text = CutEllipsis(IF t[Len(t)] = "/" THEN t ELSE AfterLastSlash(t))
        /\ script.menu_label = GaussianBlurLabel => ret.text = Chars("Gaussian Blur")

\* C12's case: the title of the Gaussian Blur menu path has been returned
C12_Witness ==
  /\ ret.op = "get_title"
  /\ script.menu_label = GaussianBlurLabel
  /\ ret.text = Chars("Gaussian Blur")

(***************************************************************************)
(* The schema is fixed at construction.                                    *)
(***************************************************************************)
ReadOnlyOps ==
  {"get_command", "get_command_from_params", "get_title", "create_PDB_procedure"}

\* C13: no step of script_fu_script_collect_standard_args, _reset,
\* _get_command, _get_command_from_params, _get_title or _create_PDB_procedure
\* changes the stored argument count (which stays the length of the argument
\* sequence), the order and type of the arguments or any default value, so
\* that they are in every reachable state as at construction; the two
\* serializers, get_title and create_PDB_procedure change nothing of the
\* script.
C13_SchemaFixed ==
  [][/\ script'.n_args = script.n_args
     /\ script'.n_args = Len(script'.args)
     /\ \A i \in 1..Len(script.args) :
          /\ script'.args[i].type = script.args[i].type
          /\ script'.args[i].default_value = script.args[i].default_value
     /\ ret'.op \in ReadOnlyOps => script' = script]_vars

\* C13's case: the procedure has been built from a script whose ids an
\* extraction has written over, and the defaults are still those of
\* construction
C13_Witness ==
  /\ ret.op = "create_PDB_procedure"
  /\ IsExtractSchema(script)
  /\ script.args[1].value.sfa_image = 42
  /\ script.args[2].value.sfa_image = 7
  /\ \A i \in 1..Len(script.args) :
       script.args[i].default_value = ExtractSchema.args[i].default_value

(***************************************************************************)
(* SpecMem: reset and free on the heap blocks of the text payloads.  The   *)
(* callers fill the arguments in after script_fu_script_new: a default     *)
(* text is NULL or a block of its own, and so is a current text.           *)
(***************************************************************************)
MemTypes == {"SF_STRING", "SF_FILENAME", "SF_FONT", "SF_BRUSH", "SF_IMAGE", "SF_OPTION"}

MemSchemas ==
  SeqsUpTo(MemTypes, MaxMemArgs)
    \cup {<<t>> : t \in {u \in SFArgType : HasText(u)}}

\* which of its two texts argument i has at the start: 0 none, 1 the
\* default, 2 the current one, 3 both
MemChoices(types) ==
  {c \in [1..Len(types) -> 0..3] : \A i \in 1..Len(types) : ~HasText(types[i]) => c[i] = 0}

RECURSIVE BlocksBefore(_, _)
BlocksBefore(c, i) ==
  IF i <= 1 THEN 0
  ELSE BlocksBefore(c, i - 1) + (c[i - 1] % 2) + (c[i - 1] \div 2)

MemOf(types, c) ==
  [args |-> [i \in 1..Len(types) |->
               [type |-> types[i],
                default_value |-> IF c[i] % 2 = 1 THEN BlocksBefore(c, i) + 1 ELSE 0,
                value |-> IF c[i] \div 2 = 1
                            THEN BlocksBefore(c, i) + (c[i] % 2) + 1
                            ELSE 0]],
   heap |-> [a \in 1..BlocksBefore(c, Len(types) + 1) |-> "live"],
   double_free |-> FALSE,
   use_after_free |-> FALSE,
   freed |-> FALSE]

InitMem ==
  \E types \in MemSchemas :
    /\ script = script_fu_script_new(Chars("s"), Chars("<Image>/S"), SchemaArgs(types))
    /\ mem \in {MemOf(types, c) : c \in MemChoices(types)}
    /\ ret = NoCall

NextMem ==
  \/ \E reset_ids \in BOOLEAN :
       Len(mem.heap) + Len(mem.args) <= MaxAllocs /\ Reset(reset_ids)
  \/ Free

SpecMem == InitMem /\ [][NextMem]_vars

\* in m no block was freed twice or read after its release; while the script
\* lives, a current text is a live block that is neither its argument's
\* default nor a text of another argument; once the script is freed, every
\* block is released
Ownership(m) ==
  /\ ~m.double_free
  /\ ~m.use_after_free
  /\ ~m.freed =>
       \A i \in 1..Len(m.args) :
         LET v == m.args[i].value
         IN  (HasText(m.args[i].type) /\ v # 0) =>
               /\ m.heap[v] = "live"
               /\ v # m.args[i].default_value
               /\ \A j \in 1..Len(m.args) \ {i} :
                    v # m.args[j].value /\ v # m.args[j].default_value
  /\ m.freed => \A a \in 1..Len(m.heap) : m.heap[a] = "freed"

\* C14: after every step of script_fu_script_reset, and after the
\* script_fu_script_free that follows any number of them, no current text
\* shares its block with its argument's default or with another argument, no
\* block has been freed twice or read after its release, and after the free
\* every block is released.  A reset step releases the block of each
\* previous current text, which was live, and stores a block allocated in
\* that step (NULL for a NULL default), leaving the default's block alone.
C14_TextOwnership ==
  [][ret'.op \in {"reset", "free"} =>
       /\ Ownership(mem')
       /\ ret'.op = "reset" =>
            \A i \in 1..Len(mem.args) :
              HasText(mem.args[i].type) =>
                LET old == mem.args[i].value
                    new == mem'.args[i].value
                    default_value == mem.args[i].default_value
                IN  /\ mem'.args[i].default_value = default_value
                    /\ old # 0 => mem.heap[old] = "live" /\ mem'.heap[old] = "freed"
                    /\ IF default_value = 0
                         THEN new = 0
                         ELSE /\ new > Len(mem.heap)
                              /\ mem'.heap[new] = "live"
                              /\ mem'.heap[default_value] = "live"]_vars

\* C14's case: a script of two text arguments, each with a default and a
\* current text, has been reset and then freed: all six blocks are released
C14_Witness ==
  /\ ret.op = "free"
  /\ mem.freed
  /\ Len(mem.args) = 2
  /\ Len(mem.heap) >= 6
  /\ \A a \in 1..Len(mem.heap) : mem.heap[a] = "freed"
  /\ ~mem.double_free

(***************************************************************************)
(* The indices of arg_count.                                               *)
(***************************************************************************)
\* C15 as stated: in script_fu_script_create_PDB_procedure every read and
\* increment of arg_count[script->args[i].type] has its index inside the
\* array, whose length is SF_DISPLAY, for every argument of every schema,
\* Display arguments included.
C15_CounterIndexInBounds ==
  ret.op = "create_PDB_procedure" =>
    \A k \in 1..Len(ret.procedure.params) : ret.procedure.params[k].in_bounds

(***************************************************************************)
(* SpecParams: the serializer of an invocation and the extractor on        *)
(* invocations that hold the script's values or only the first of them.    *)
(***************************************************************************)
ParamTypes ==
  {"SF_IMAGE", "SF_DRAWABLE", "SF_DISPLAY", "SF_STRING", "SF_ADJUSTMENT", "SF_TOGGLE"}

ParamScripts ==
  {script_fu_script_new(Chars("s"), Chars("<Image>/S"), SchemaArgs(ts)) :
     ts \in SeqsUpTo(ParamTypes, MaxParamArgs)}

\* the invocations that hold the first values of the full one
Prefixes(args) == {SubSeq(args, 1, k) : k \in 0..Len(args)}

InitParams == script \in ParamScripts /\ ret = NoCall /\ mem = NoMem

NextParams ==
  \/ \E args \in Prefixes(ValueArrayOf(script)) : GetCommandFromParams(args)
  \/ \E args \in Prefixes(ValueArrayOf(script)) : CollectStandardArgs(args)

SpecParams == InitParams /\ [][NextParams]_vars

\* C16 as stated: for every script and every invocation, also one of fewer
\* than n_args + 1 values, script_fu_script_get_command_from_params reads
\* only positions below the length of the invocation, and
\* script_fu_script_collect_standard_args reads only such positions and only
\* schema slots below n_args.
C16_ReadsInBounds ==
  ret.op \in {"get_command_from_params", "collect_standard_args"} =>
    /\ \A k \in ret.positions : k < gimp_value_array_length(ret.args)
    /\ \A n \in ret.slots : n < script.n_args

====
